---------------------------- MODULE Spec2Model ----------------------------
(***************************************************************************)
(* A model of scripts/extract_pdf_metadata.py: the filename parser, the    *)
(* status-code decoder, the text cleaner, the metadata extraction with its *)
(* fallbacks, and main(), which merges the scanned PDFs into the persisted *)
(* list of publications.                                                   *)
(*                                                                         *)
(* A Python str is a sequence of characters; a character is a one-element  *)
(* string ("a", " ", "\n").  Characters that the module's ASCII source     *)
(* cannot spell are named: "<dagger>" is the one character U+2020.         *)
(*                                                                         *)
(* The persisted list is held as the list of dicts that yaml.safe_load     *)
(* returns and yaml.dump is given; the YAML text itself is not modelled.   *)
(***************************************************************************)
EXTENDS Integers, Sequences, FiniteSets, TLC

VARIABLES
    papers_dir,     \* PAPERS_DIR.exists()
    files,          \* the PDFs under papers/: [folder, name, pdf]
    publications,   \* the content of _data/publications.yml (a list of dicts)
    loaded,         \* what the last run of main() loaded
    scan,           \* the paths the last run of main() iterated over, in order
    new_count,      \* main()'s new_count at the end of the last run
    updated_count,  \* main()'s updated_count at the end of the last run
    saved,          \* whether the last run called save_publications
    last_op,        \* the last step: "none", "run", "rerun" (a run right after a run) or "edit"
    renamed,        \* the rename of a PDF made by the last edit, or NoRename
    created,        \* the paths main() has appended a record for, one entry per append
    env_steps,      \* the number of edits from outside so far
    arg,            \* the argument of the function under test
    ret,            \* its result
    pc              \* "idle", "call" or "return"

merge_vars == <<papers_dir, files, publications, loaded, scan, new_count,
                updated_count, saved, last_op, renamed, created, env_steps>>
call_vars == <<arg, ret, pc>>
vars == <<merge_vars, call_vars>>

-----------------------------------------------------------------------------
(* Bounds of the model.                                                    *)

MaxStemLen == 7     \* the longest filename stem parse_filename is tried on
MaxCodeLen == 5     \* the longest status code _parse_status_code is tried on
MaxTextLen == 6     \* the longest text clean_text is tried on
MaxFiles == 2       \* the most PDFs under papers/ at a time
MaxEnvSteps == 2     \* the most edits from outside (files, records) in a behaviour

-----------------------------------------------------------------------------
(* Python's str operations, on sequences of characters.                    *)

LowerCase == <<"a","b","c","d","e","f","g","h","i","j","k","l","m","n","o","p","q","r","s","t","u","v","w","x","y","z">>
UpperCase == <<"A","B","C","D","E","F","G","H","I","J","K","L","M","N","O","P","Q","R","S","T","U","V","W","X","Y","Z">>
Digits == <<"0","1","2","3","4","5","6","7","8","9">>

Range(s) == {s[i] : i \in 1..Len(s)}

\* Op applied to the value of v: v is evaluated once, however often Op uses it.
bind(v, Op(_)) == CHOOSE r \in {Op(x) : x \in {v}} : TRUE

IndexOf(s, c) == CHOOSE i \in 1..Len(s) : s[i] = c

\* \s and str.isspace()
IsSpace(c) == c \in {" ", "\t", "\n", "\r", "\f"}

\* \d
IsDigit(c) == c \in Range(Digits)

\* \w
IsWord(c) == c \in Range(LowerCase) \cup Range(UpperCase) \cup Range(Digits) \cup {"_"}

upper_char(c) == IF c \in Range(LowerCase) THEN UpperCase[IndexOf(LowerCase, c)] ELSE c

lower_char(c) == IF c \in Range(UpperCase) THEN LowerCase[IndexOf(UpperCase, c)] ELSE c

\* str.upper()
upper(s) == [i \in 1..Len(s) |-> upper_char(s[i])]

\* str.isdigit()
isdigit(s) == Len(s) >= 1 /\ \A i \in 1..Len(s) : IsDigit(s[i])

\* int(s) for a string of decimal digits
RECURSIVE int(_)
int(s) ==
    IF s = <<>> THEN 0
    ELSE 10 * int(SubSeq(s, 1, Len(s) - 1)) + (IndexOf(Digits, s[Len(s)]) - 1)

\* str.startswith(prefix)
startswith(s, prefix) == Len(s) >= Len(prefix) /\ SubSeq(s, 1, Len(prefix)) = prefix

\* The first index at which sep occurs in s, or 0: str.find, counted from 1.
find(s, sep) ==
    LET hits == {i \in 1..(Len(s) - Len(sep) + 1) : SubSeq(s, i, i + Len(sep) - 1) = sep}
    IN  IF hits = {} THEN 0 ELSE CHOOSE i \in hits : \A j \in hits : i <= j

\* str.split(sep): cut at each occurrence of sep, found left to right.
RECURSIVE split(_, _)
split(s, sep) ==
    bind(find(s, sep), LAMBDA i :
        IF i = 0 THEN <<s>>
        ELSE <<SubSeq(s, 1, i - 1)>> \o
             bind(SubSeq(s, i + Len(sep), Len(s)), LAMBDA rest : split(rest, sep)))

\* str.split(sep, 1): cut at the first occurrence of sep only.
split_once(s, sep) ==
    bind(find(s, sep), LAMBDA i :
        IF i = 0 THEN <<s>>
        ELSE <<SubSeq(s, 1, i - 1), SubSeq(s, i + Len(sep), Len(s))>>)

\* sep.join(parts)
RECURSIVE join(_, _)
join(parts, sep) ==
    IF parts = <<>> THEN <<>>
    ELSE IF Len(parts) = 1 THEN parts[1]
    ELSE parts[1] \o sep \o join(Tail(parts), sep)

\* str.lstrip(), str.rstrip() and str.strip() of whitespace
RECURSIVE lstrip(_)
lstrip(s) == IF s # <<>> /\ IsSpace(s[1]) THEN lstrip(Tail(s)) ELSE s

RECURSIVE rstrip(_)
rstrip(s) == IF s # <<>> /\ IsSpace(s[Len(s)]) THEN rstrip(SubSeq(s, 1, Len(s) - 1)) ELSE s

strip(s) == rstrip(lstrip(s))

\* str.rstrip(chars)
RECURSIVE rstrip_chars(_, _)
rstrip_chars(s, chars) ==
    IF s # <<>> /\ s[Len(s)] \in chars
    THEN rstrip_chars(SubSeq(s, 1, Len(s) - 1), chars)
    ELSE s

\* str.replace(old, new) for a one-character old
replace(s, old, new) == [i \in 1..Len(s) |-> IF s[i] = old THEN new ELSE s[i]]

\* str.title(): a cased character is upper-cased after an uncased one (or at the
\* start) and lower-cased after a cased one.
IsCased(c) == c \in Range(LowerCase) \cup Range(UpperCase)

title(s) ==
    [i \in 1..Len(s) |->
        IF ~IsCased(s[i]) THEN s[i]
        ELSE IF i > 1 /\ IsCased(s[i - 1]) THEN lower_char(s[i])
        ELSE upper_char(s[i])]

\* Path(filename).stem: the name without its last suffix; a name whose only dot
\* is its first or its last character has no suffix.
stem(filename) ==
    LET dots == {i \in 1..Len(filename) : filename[i] = "."}
        d == IF dots = {} THEN 0 ELSE CHOOSE i \in dots : \A j \in dots : j <= i
    IN  IF d > 1 /\ d < Len(filename) THEN SubSeq(filename, 1, d - 1) ELSE filename

\* The number of whitespace characters of text from index i on.
RECURSIVE space_run(_, _)
space_run(text, i) ==
    IF i <= Len(text) /\ IsSpace(text[i]) THEN 1 + space_run(text, i + 1) ELSE 0

-----------------------------------------------------------------------------
(* Module constants.                                                       *)

DEFAULT_STATUS == <<"W","o","r","k","i","n","g"," ","p","a","p","e","r">>
UNDER_REVIEW == <<"U","n","d","e","r"," ","r","e","v","i","e","w">>
REVISE_RESUBMIT == <<"R","e","v","i","s","e"," ","&"," ","R","e","s","u","b","m","i","t">>
AUTHORS == <<"J","i","h","y","e"," ","P","a","r","k">>
DEFAULT_CATEGORY == <<"w","o","r","k","i","n","g","-","p","a","p","e","r","s">>
DEFAULT_SORT_ORDER == 999
YEAR == 2025

CATEGORY_MAP ==
    { <<"w","o","r","k","i","n","g","-","p","a","p","e","r","s">>,
      <<"p","e","e","r","-","r","e","v","i","e","w","e","d">>,
      <<"b","o","o","k","-","c","h","a","p","t","e","r","s">>,
      <<"i","n","-","p","r","o","g","r","e","s","s">> }

JOURNAL_ABBREVS ==
    { <<<<"A","P","S","R">>,
       <<"A","m","e","r","i","c","a","n"," ","P","o","l","i","t","i","c","a","l"," ","S","c","i","e","n","c","e"," ","R","e","v","i","e","w">>>>,
      <<<<"A","J","P","S">>,
       <<"A","m","e","r","i","c","a","n"," ","J","o","u","r","n","a","l"," ","o","f"," ","P","o","l","i","t","i","c","a","l"," ","S","c","i","e","n","c","e">>>>,
      <<<<"J","O","P">>,
       <<"J","o","u","r","n","a","l"," ","o","f"," ","P","o","l","i","t","i","c","s">>>>,
      <<<<"I","O">>,
       <<"I","n","t","e","r","n","a","t","i","o","n","a","l"," ","O","r","g","a","n","i","z","a","t","i","o","n">>>>,
      <<<<"I","S">>,
       <<"I","n","t","e","r","n","a","t","i","o","n","a","l"," ","S","t","u","d","i","e","s"," ","Q","u","a","r","t","e","r","l","y">>>>,
      <<<<"I","S","Q">>,
       <<"I","n","t","e","r","n","a","t","i","o","n","a","l"," ","S","t","u","d","i","e","s"," ","Q","u","a","r","t","e","r","l","y">>>>,
      <<<<"C","P","S">>,
       <<"C","o","m","p","a","r","a","t","i","v","e"," ","P","o","l","i","t","i","c","a","l"," ","S","t","u","d","i","e","s">>>>,
      <<<<"W","P">>,
       <<"W","o","r","l","d"," ","P","o","l","i","t","i","c","s">>>>,
      <<<<"B","J","P","S">>,
       <<"B","r","i","t","i","s","h"," ","J","o","u","r","n","a","l"," ","o","f"," ","P","o","l","i","t","i","c","a","l"," ","S","c","i","e","n","c","e">>>>,
      <<<<"P","A">>,
       <<"P","o","l","i","t","i","c","a","l"," ","A","n","a","l","y","s","i","s">>>>,
      <<<<"P","S","Q">>,
       <<"P","o","l","i","t","i","c","a","l"," ","S","c","i","e","n","c","e"," ","Q","u","a","r","t","e","r","l","y">>>>,
      <<<<"P","R","Q">>,
       <<"P","o","l","i","t","i","c","a","l"," ","R","e","s","e","a","r","c","h"," ","Q","u","a","r","t","e","r","l","y">>>>,
      <<<<"P","S","R","M">>,
       <<"P","o","l","i","t","i","c","a","l"," ","S","c","i","e","n","c","e"," ","R","e","s","e","a","r","c","h"," ","a","n","d"," ","M","e","t","h","o","d","s">>>>,
      <<<<"E","J","P","R">>,
       <<"E","u","r","o","p","e","a","n"," ","J","o","u","r","n","a","l"," ","o","f"," ","P","o","l","i","t","i","c","a","l"," ","R","e","s","e","a","r","c","h">>>>,
      <<<<"J","C","M","S">>,
       <<"J","o","u","r","n","a","l"," ","o","f"," ","C","o","m","m","o","n"," ","M","a","r","k","e","t"," ","S","t","u","d","i","e","s">>>>,
      <<<<"J","P","P">>,
       <<"J","o","u","r","n","a","l"," ","o","f"," ","P","u","b","l","i","c"," ","P","o","l","i","c","y">>>>,
      <<<<"G","O","V">>,
       <<"G","o","v","e","r","n","a","n","c","e">>>>,
      <<<<"L","S","Q">>,
       <<"L","e","g","i","s","l","a","t","i","v","e"," ","S","t","u","d","i","e","s"," ","Q","u","a","r","t","e","r","l","y">>>>,
      <<<<"P","O","Q">>,
       <<"P","u","b","l","i","c"," ","O","p","i","n","i","o","n"," ","Q","u","a","r","t","e","r","l","y">>>>,
      <<<<"R","I","O">>,
       <<"R","e","v","i","e","w"," ","o","f"," ","I","n","t","e","r","n","a","t","i","o","n","a","l"," ","O","r","g","a","n","i","z","a","t","i","o","n","s">>>>,
      <<<<"R","I","P","E">>,
       <<"R","e","v","i","e","w"," ","o","f"," ","I","n","t","e","r","n","a","t","i","o","n","a","l"," ","P","o","l","i","t","i","c","a","l"," ","E","c","o","n","o","m","y">>>>,
      <<<<"R","E","P">>,
       <<"R","e","v","i","e","w"," ","o","f"," ","E","c","o","n","o","m","i","c","s"," ","a","n","d"," ","P","o","l","i","t","i","c","s">>>> }

\* JOURNAL_ABBREVS.get(key, default)
journal_get(key, default) ==
    IF \E e \in JOURNAL_ABBREVS : e[1] = key
    THEN (CHOOSE e \in JOURNAL_ABBREVS : e[1] = key)[2]
    ELSE default

-----------------------------------------------------------------------------
(* clean_text                                                              *)

\* [∗\*†‡§¶]
FOOTNOTE_MARKERS ==
    {"*", "<asterisk operator>", "<dagger>", "<double dagger>", "<section>", "<pilcrow>"}

\* re.sub(r'[∗\*†‡§¶]+', '', text)
remove_markers(text) == SelectSeq(text, LAMBDA c : c \notin FOOTNOTE_MARKERS)

\* (?<=\w)\s*\d{1,2}(?=\s) tried at index i: the index of the match's last
\* character, or 0.  The look-behind reads the text being searched, whether or
\* not an earlier match took that character.
footnote_number_end(text, i) ==
    IF ~(i > 1 /\ IsWord(text[i - 1])) THEN 0
    ELSE bind(i + space_run(text, i), LAMBDA j :
        IF ~(j <= Len(text) /\ IsDigit(text[j])) THEN 0
        ELSE IF j + 2 <= Len(text) /\ IsDigit(text[j + 1]) /\ IsSpace(text[j + 2]) THEN j + 1
        ELSE IF j + 1 <= Len(text) /\ IsSpace(text[j + 1]) THEN j
        ELSE 0)

\* re.sub(r'(?<=\w)\s*\d{1,2}(?=\s)', ' ', text), from index i on
RECURSIVE remove_footnote_numbers_from(_, _)
remove_footnote_numbers_from(text, i) ==
    IF i > Len(text) THEN <<>>
    ELSE bind(footnote_number_end(text, i), LAMBDA e :
             IF e = 0
             THEN <<text[i]>> \o remove_footnote_numbers_from(text, i + 1)
             ELSE <<" ">> \o remove_footnote_numbers_from(text, e + 1))

remove_footnote_numbers(text) == bind(text, LAMBDA t : remove_footnote_numbers_from(t, 1))

\* (\w)-\s+(\w) tried at index i: the index of the match's last character, or 0.
hyphenation_end(text, i) ==
    IF ~(IsWord(text[i]) /\ i + 1 <= Len(text) /\ text[i + 1] = "-") THEN 0
    ELSE bind(space_run(text, i + 2), LAMBDA k :
        IF k >= 1 /\ i + 2 + k <= Len(text) /\ IsWord(text[i + 2 + k])
        THEN i + 2 + k
        ELSE 0)

\* re.sub(r'(\w)-\s+(\w)', r'\1\2', text), from index i on
RECURSIVE fix_hyphenation_from(_, _)
fix_hyphenation_from(text, i) ==
    IF i > Len(text) THEN <<>>
    ELSE bind(hyphenation_end(text, i), LAMBDA e :
             IF e = 0
             THEN <<text[i]>> \o fix_hyphenation_from(text, i + 1)
             ELSE <<text[i], text[e]>> \o fix_hyphenation_from(text, e + 1))

fix_hyphenation(text) == bind(text, LAMBDA t : fix_hyphenation_from(t, 1))

\* re.sub(r'\s+', ' ', text), from index i on
RECURSIVE normalize_whitespace_from(_, _)
normalize_whitespace_from(text, i) ==
    IF i > Len(text) THEN <<>>
    ELSE IF IsSpace(text[i])
    THEN <<" ">> \o bind(i + space_run(text, i), LAMBDA j : normalize_whitespace_from(text, j))
    ELSE <<text[i]>> \o normalize_whitespace_from(text, i + 1)

normalize_whitespace(text) == bind(text, LAMBDA t : normalize_whitespace_from(t, 1))

clean_text(text) ==
    bind(normalize_whitespace(fix_hyphenation(remove_footnote_numbers(remove_markers(text)))),
         LAMBDA t : strip(t))

-----------------------------------------------------------------------------
(* parse_filename and _parse_status_code                                   *)

DELIMITER == <<"_", "_">>

\* _parse_status_code with the journal abbreviation looked up and shown as
\* written, without upper(): C6_Decoding tells it from _parse_status_code.
_parse_status_code_raw_abbrev(status_code) ==
    bind(upper(status_code), LAMBDA code :
        IF code = <<"U", "R">> THEN UNDER_REVIEW
        ELSE IF code = <<"W", "P">> THEN DEFAULT_STATUS
        ELSE IF startswith(code, <<"R", "R">>)
        THEN bind(split_once(status_code, <<"-">>), LAMBDA parts :
                 IF Len(parts) = 2
                 THEN REVISE_RESUBMIT \o <<",", " ">> \o journal_get(parts[2], parts[2])
                 ELSE REVISE_RESUBMIT)
        ELSE status_code)

_parse_status_code(status_code) ==
    bind(upper(status_code), LAMBDA code :
        IF code = <<"U", "R">> THEN UNDER_REVIEW
        ELSE IF code = <<"W", "P">> THEN DEFAULT_STATUS
        ELSE IF startswith(code, <<"R", "R">>)
        THEN bind(split_once(status_code, <<"-">>), LAMBDA parts :
                 IF Len(parts) = 2
                 THEN bind(upper(parts[2]), LAMBDA journal_abbrev :
                          REVISE_RESUBMIT \o <<",", " ">> \o
                          journal_get(journal_abbrev, journal_abbrev))
                 ELSE REVISE_RESUBMIT)
        ELSE status_code)

\* parse_parts taking a leading all-digit segment as the sort order even when
\* it is the only segment: C5_SortOrder tells it from parse_parts.
parse_parts_prefix_alone(file_stem, all_parts) ==
    LET has_order == Len(all_parts) >= 1 /\ isdigit(all_parts[1])
        sort_order == IF has_order THEN int(all_parts[1]) ELSE DEFAULT_SORT_ORDER
        parts == IF has_order THEN Tail(all_parts) ELSE all_parts
    IN  IF Len(parts) = 1
        THEN [clean_name |-> parts[1], status |-> DEFAULT_STATUS, sort_order |-> sort_order]
        ELSE IF Len(parts) >= 2
        THEN [clean_name |-> join(SubSeq(parts, 1, Len(parts) - 1), DELIMITER),
              status |-> _parse_status_code(strip(parts[Len(parts)])),
              sort_order |-> sort_order]
        ELSE [clean_name |-> file_stem, status |-> DEFAULT_STATUS, sort_order |-> sort_order]

\* parse_parts keeping only the first segment as the name instead of joining
\* all but the last: C7_NameAndStatus tells it from parse_parts.
parse_parts_first_segment(file_stem, all_parts) ==
    LET has_order == Len(all_parts) >= 2 /\ isdigit(all_parts[1])
        sort_order == IF has_order THEN int(all_parts[1]) ELSE DEFAULT_SORT_ORDER
        parts == IF has_order THEN Tail(all_parts) ELSE all_parts
    IN  IF Len(parts) = 1
        THEN [clean_name |-> parts[1], status |-> DEFAULT_STATUS, sort_order |-> sort_order]
        ELSE IF Len(parts) >= 2
        THEN [clean_name |-> parts[1],
              status |-> _parse_status_code(strip(parts[Len(parts)])),
              sort_order |-> sort_order]
        ELSE [clean_name |-> file_stem, status |-> DEFAULT_STATUS, sort_order |-> sort_order]

\* parse_filename once the stem is split: the numeric prefix, then the name and
\* the status code.
parse_parts(file_stem, all_parts) ==
    LET has_order == Len(all_parts) >= 2 /\ isdigit(all_parts[1])
        sort_order == IF has_order THEN int(all_parts[1]) ELSE DEFAULT_SORT_ORDER
        parts == IF has_order THEN Tail(all_parts) ELSE all_parts
    IN  IF Len(parts) = 1
        THEN [clean_name |-> parts[1], status |-> DEFAULT_STATUS, sort_order |-> sort_order]
        ELSE IF Len(parts) >= 2
        THEN [clean_name |-> join(SubSeq(parts, 1, Len(parts) - 1), DELIMITER),
              status |-> _parse_status_code(strip(parts[Len(parts)])),
              sort_order |-> sort_order]
        ELSE [clean_name |-> file_stem, status |-> DEFAULT_STATUS, sort_order |-> sort_order]

parse_filename(filename) ==
    bind(stem(filename), LAMBDA file_stem :
        bind(split(file_stem, DELIMITER), LAMBDA all_parts :
            parse_parts(file_stem, all_parts)))

-----------------------------------------------------------------------------
(* The functions on their own: each is called once on an argument drawn    *)
(* from all strings over a small alphabet.                                 *)

\* All strings over alphabet of length at most n.
Strings(alphabet, n) == UNION {[1..k -> alphabet] : k \in 0..n}

PDF_SUFFIX == <<".", "p", "d", "f">>

STEM_ALPHABET == {"0", "1", "a", "_"}
CODE_ALPHABET == {"R", "r", "W", "P", "p", "U", "-"}
TEXT_ALPHABET == {"a", "1", " ", "-", "*"}

NoRename == [from |-> <<>>, to |-> <<>>, old_name |-> <<>>, new_name |-> <<>>]

\* Before the first run of main(): no publications.yml, an empty papers/.
MergeInit ==
    /\ papers_dir = TRUE
    /\ files = {}
    /\ publications = <<>>
    /\ loaded = <<>>
    /\ scan = <<>>
    /\ new_count = 0
    /\ updated_count = 0
    /\ saved = FALSE
    /\ last_op = "none"
    /\ renamed = NoRename
    /\ created = <<>>
    /\ env_steps = 0

InitParse ==
    /\ MergeInit
    /\ arg \in {s \o PDF_SUFFIX : s \in Strings(STEM_ALPHABET, MaxStemLen)}
    /\ ret = <<>>
    /\ pc = "call"

CallParseFilename ==
    /\ pc = "call"
    /\ ret' = parse_filename(arg)
    /\ pc' = "return"
    /\ UNCHANGED <<arg, merge_vars>>

NextParse == CallParseFilename

SpecParse == InitParse /\ [][NextParse]_vars

InitStatus ==
    /\ MergeInit
    /\ arg \in Strings(CODE_ALPHABET, MaxCodeLen)
    /\ ret = <<>>
    /\ pc = "call"

CallParseStatusCode ==
    /\ pc = "call"
    /\ ret' = _parse_status_code(arg)
    /\ pc' = "return"
    /\ UNCHANGED <<arg, merge_vars>>

NextStatus == CallParseStatusCode

SpecStatus == InitStatus /\ [][NextStatus]_vars

InitClean ==
    /\ MergeInit
    /\ arg \in Strings(TEXT_ALPHABET, MaxTextLen)
    /\ ret = <<>>
    /\ pc = "call"

CallCleanText ==
    /\ pc = "call"
    /\ ret' = clean_text(arg)
    /\ pc' = "return"
    /\ UNCHANGED <<arg, merge_vars>>

NextClean == CallCleanText

SpecClean == InitClean /\ [][NextClean]_vars

-----------------------------------------------------------------------------
(* Claims about parse_filename (under SpecParse).                          *)

\* The stem's segments, and its first segment.
Segments == split(stem(arg), DELIMITER)
FirstSegment == Segments[1]

\* The stem from behind its first delimiter on.
AfterFirstDelimiter ==
    SubSeq(stem(arg), find(stem(arg), DELIMITER) + 2, Len(stem(arg)))

\* The segments left once a numeric first segment that another follows is taken off.
RestSegments ==
    IF Len(Segments) >= 2 /\ isdigit(FirstSegment) THEN Tail(Segments) ELSE Segments

C7_NameAndStatus ==
    pc = "return" =>
        /\ Len(RestSegments) = 1 =>
              /\ ret.clean_name = RestSegments[1]
              /\ ret.status = DEFAULT_STATUS
        /\ Len(RestSegments) >= 2 =>
              /\ ret.clean_name \o DELIMITER \o RestSegments[Len(RestSegments)]
                    = join(RestSegments, DELIMITER)
              /\ ret.status = _parse_status_code(strip(RestSegments[Len(RestSegments)]))
        /\ find(stem(arg), DELIMITER) = 0 =>
              /\ ret.clean_name = stem(arg)
              /\ ret.status = DEFAULT_STATUS

\* a__a__a.pdf was parsed: the name holds the delimiter, the last segment is the code.
C7_Witness ==
    /\ pc = "return"
    /\ arg = <<"a", "_", "_", "a", "_", "_", "a">> \o PDF_SUFFIX
    /\ ret.clean_name = <<"a", "_", "_", "a">>
    /\ ret.status = <<"a">>

-----------------------------------------------------------------------------
(* Claims about _parse_status_code (under SpecStatus).                     *)

\* The text behind a code's first hyphen.
AfterHyphen(code) == SubSeq(code, find(code, <<"-">>) + 1, Len(code))

InTable(abbrev) == \E e \in JOURNAL_ABBREVS : e[1] = abbrev

FullName(abbrev) == (CHOOSE e \in JOURNAL_ABBREVS : e[1] = abbrev)[2]

RR_COMMA == REVISE_RESUBMIT \o <<",", " ">>

\* C6 as stated: UR, WP and RR (in any case) decode to their display strings;
\* RR-<ABBREV> gives the journal's full name when ABBREV is in the table and
\* ABBREV exactly as written when it is not; every other code comes back verbatim.
C6_DecodingAsStated ==
    pc = "return" =>
        IF upper(arg) = <<"U", "R">> THEN ret = UNDER_REVIEW
        ELSE IF upper(arg) = <<"W", "P">> THEN ret = DEFAULT_STATUS
        ELSE IF upper(arg) = <<"R", "R">> THEN ret = REVISE_RESUBMIT
        ELSE IF startswith(upper(arg), <<"R", "R", "-">>)
        THEN IF InTable(upper(AfterHyphen(arg)))
             THEN ret = RR_COMMA \o FullName(upper(AfterHyphen(arg)))
             ELSE ret = RR_COMMA \o AfterHyphen(arg)
        ELSE ret = arg

\* C6 as amended: UR and WP (in any case) decode to their display strings; a
\* code that starts with RR (in any case) and holds a hyphen gives
\* "Revise & Resubmit, " and the full name of the upper-cased text behind its
\* first hyphen, or that upper-cased text itself when the table lacks it; a code
\* that starts with RR and holds no hyphen gives "Revise & Resubmit"; every
\* other code comes back verbatim.
C6_Decoding ==
    pc = "return" =>
        IF upper(arg) = <<"U", "R">> THEN ret = UNDER_REVIEW
        ELSE IF upper(arg) = <<"W", "P">> THEN ret = DEFAULT_STATUS
        ELSE IF Len(arg) >= 2 /\ upper(SubSeq(arg, 1, 2)) = <<"R", "R">>
        THEN IF "-" \in Range(arg)
             THEN IF InTable(upper(AfterHyphen(arg)))
                  THEN ret = RR_COMMA \o FullName(upper(AfterHyphen(arg)))
                  ELSE ret = RR_COMMA \o upper(AfterHyphen(arg))
             ELSE ret = REVISE_RESUBMIT
        ELSE ret = arg

\* rR-Wp was decoded through the table, and rr-p, which the table lacks.
C6_Witness ==
    /\ pc = "return"
    /\ \/ /\ arg = <<"r", "R", "-", "W", "p">>
          /\ ret = RR_COMMA \o <<"W", "o", "r", "l", "d", " ", "P", "o", "l", "i", "t", "i", "c", "s">>
       \/ /\ arg = <<"r", "r", "-", "p">>
          /\ ret = RR_COMMA \o <<"P">>

-----------------------------------------------------------------------------
(* Claims about clean_text (under SpecClean).                              *)

\* C8: clean_text is idempotent: cleaning a cleaned text changes nothing.
C8_Idempotent == pc = "return" => clean_text(ret) = ret


-----------------------------------------------------------------------------
(* Paths and their order.                                                  *)

\* The printable ASCII characters in code-point order (without the double
\* quote, the backslash and the backquote).
ASCII ==
    <<" ","!","#","$","%","&","'","(",")","*","+",",","-",".","/","0","1","2","3","4","5","6","7","8","9",":",";","<","=",">","?","@","A","B","C","D","E","F","G","H","I","J","K","L","M","N","O","P">> \o
    <<"Q","R","S","T","U","V","W","X","Y","Z","[","]","^","_","a","b","c","d","e","f","g","h","i","j","k","l","m","n","o","p","q","r","s","t","u","v","w","x","y","z","{","|","}","~">>

\* str < str: by code point, a proper prefix first.
RECURSIVE str_lt(_, _)
str_lt(a, b) ==
    IF b = <<>> THEN FALSE
    ELSE IF a = <<>> THEN TRUE
    ELSE IF a[1] # b[1] THEN IndexOf(ASCII, a[1]) < IndexOf(ASCII, b[1])
    ELSE str_lt(Tail(a), Tail(b))

PAPERS_DIR == <<"p","a","p","e","r","s">>

\* str(pdf_path) of a PDF in a folder of papers/
relative(f) == PAPERS_DIR \o <<"/">> \o f.folder \o <<"/">> \o f.name

\* Path < Path: part by part.
path_lt(f, g) ==
    IF f.folder # g.folder THEN str_lt(f.folder, g.folder) ELSE str_lt(f.name, g.name)

\* sorted(PAPERS_DIR.rglob("*.pdf"))
RECURSIVE sorted(_)
sorted(S) ==
    IF S = {} THEN <<>>
    ELSE LET first == CHOOSE f \in S : \A g \in S \ {f} : path_lt(f, g)
         IN  <<first>> \o sorted(S \ {first})

-----------------------------------------------------------------------------
(* Extraction.  A PDF is what pdfplumber reads from it: whether it opens,   *)
(* its number of pages, the words of its first page with their font sizes,  *)
(* and what the search for an abstract finds in the text of its first three *)
(* pages (empty when it finds none).                                        *)

\* max(w.get("size", 0) for w in words)
max_size(words) ==
    CHOOSE m \in {words[i].size : i \in 1..Len(words)} :
        \A i \in 1..Len(words) : words[i].size <= m

\* The title emptied when it is just a number (digits between optional whitespace).
drop_bare_number(text) == bind(text, LAMBDA t : IF isdigit(strip(t)) THEN <<>> ELSE t)

extract_title_from_pdf(pdf) ==
    IF ~pdf.readable THEN <<>>                  \* the exception is caught
    ELSE IF pdf.pages = 0 THEN <<>>
    ELSE IF pdf.words = <<>> THEN <<>>
    ELSE LET body_sizes == {pdf.words[i].size : i \in 1..Len(pdf.words)}
             \* size >= max_size * 0.9, in tenths
             is_title(w) == IF Cardinality(body_sizes) >= 2
                            THEN 10 * w.size >= 9 * max_size(pdf.words)
                            ELSE w.size >= max_size(pdf.words)
         IN  bind(SelectSeq(pdf.words, is_title), LAMBDA title_words :
             bind(drop_bare_number(clean_text(
                      join([i \in 1..Len(title_words) |-> title_words[i].text], <<" ">>))),
                  LAMBDA text : IF Len(text) > 5 THEN text ELSE <<>>))

extract_abstract_from_pdf(pdf) ==
    IF ~pdf.readable THEN <<>>                  \* the exception is caught
    ELSE pdf.abstract

fallback_title(clean_name) ==
    bind(replace(replace(clean_name, "-", " "), "_", " "), LAMBDA spaced : title(spaced))

TRAILING_PUNCTUATION == {".", ",", ";", ":", " "}

\* extract_metadata without the filename fallback for a missing or short
\* title: C9_ExtractionFailuresIsolated tells it from extract_metadata.
extract_metadata_no_fallback(name, pdf) ==
    bind(parse_filename(name), LAMBDA parsed :
        bind(extract_title_from_pdf(pdf), LAMBDA extracted :
            [title |-> bind(clean_text(extracted),
                            LAMBDA t : rstrip_chars(t, TRAILING_PUNCTUATION)),
             abstract |-> extract_abstract_from_pdf(pdf),
             status |-> parsed.status,
             sort_order |-> parsed.sort_order]))

extract_metadata(name, pdf) ==
    bind(parse_filename(name), LAMBDA parsed :
        bind(extract_title_from_pdf(pdf), LAMBDA extracted :
            bind(IF extracted = <<>> \/ Len(extracted) < 5
                 THEN fallback_title(parsed.clean_name)
                 ELSE extracted,
                 LAMBDA chosen :
                     [title |-> bind(clean_text(chosen),
                                     LAMBDA t : rstrip_chars(t, TRAILING_PUNCTUATION)),
                      abstract |-> extract_abstract_from_pdf(pdf),
                      status |-> parsed.status,
                      sort_order |-> parsed.sort_order])))

get_category(folder) == IF folder \in CATEGORY_MAP THEN folder ELSE DEFAULT_CATEGORY

-----------------------------------------------------------------------------
(* main()                                                                  *)

\* new_entry storing the default status instead of the parsed one, so that the
\* next run finds the record stale: C10_SecondRunIdle tells it from new_entry.
new_entry_default_status(f) ==
    bind(extract_metadata(f.name, f.pdf), LAMBDA metadata :
        bind([title |-> metadata.title,
              authors |-> AUTHORS,
              category |-> get_category(f.folder),
              github_pdf |-> relative(f),
              year |-> YEAR,
              status |-> DEFAULT_STATUS,
              sort_order |-> metadata.sort_order],
             LAMBDA entry :
                 IF metadata.abstract # <<>>
                 THEN entry @@ [abstract |-> metadata.abstract]
                 ELSE entry))

\* The dict main() appends for a PDF without a record.
new_entry(f) ==
    bind(extract_metadata(f.name, f.pdf), LAMBDA metadata :
        bind([title |-> metadata.title,
              authors |-> AUTHORS,
              category |-> get_category(f.folder),
              github_pdf |-> relative(f),
              year |-> YEAR,
              status |-> metadata.status,
              sort_order |-> metadata.sort_order],
             LAMBDA entry :
                 IF metadata.abstract # <<>>
                 THEN entry @@ [abstract |-> metadata.abstract]
                 ELSE entry))

\* Whether main() changes pub for the parsed name of its PDF.
changed(pub, parsed) ==
    pub.status # parsed.status \/ pub.sort_order # parsed.sort_order

\* refresh deriving the title from the filename again as well:
\* C1_OnlyStatusAndSortOrder tells it from refresh.
refresh_with_title(pub, parsed) ==
    [pub EXCEPT !.status = parsed.status,
                !.sort_order = parsed.sort_order,
                !.title = fallback_title(parsed.clean_name)]

\* pub after main() refreshed it from the parsed name of its PDF.
refresh(pub, parsed) ==
    [pub EXCEPT !.status = parsed.status, !.sort_order = parsed.sort_order]

\* existing_paths_of reading a key no record has, so that every get() gives
\* "": C3_UniqueSourceRef tells it from existing_paths_of.
existing_paths_of_missing_key(pubs) == {<<>> : i \in 1..Len(pubs)}

\* {p.get("github_pdf", "") for p in publications}
existing_paths_of(pubs) == {pubs[i].github_pdf : i \in 1..Len(pubs)}

\* One pass of main()'s loop body, for the PDF f.
loop_body(st, f, existing_paths) ==
    IF relative(f) \in existing_paths
    THEN bind(<<parse_filename(f.name), relative(f)>>, LAMBDA p :
             LET parsed == p[1]
                 hit(i) == st.publications[i].github_pdf = p[2]
             IN  [publications |->
                      [i \in 1..Len(st.publications) |->
                          IF hit(i) THEN refresh(st.publications[i], parsed)
                          ELSE st.publications[i]],
                  new_count |-> st.new_count,
                  updated_count |-> st.updated_count + Cardinality(
                      {i \in 1..Len(st.publications) :
                          hit(i) /\ changed(st.publications[i], parsed)})])
    ELSE [publications |-> Append(st.publications, new_entry(f)),
          new_count |-> st.new_count + 1,
          updated_count |-> st.updated_count]

\* main()'s loop over the PDFs still to visit.
RECURSIVE loop(_, _, _)
loop(st, todo, existing_paths) ==
    IF todo = <<>> THEN st
    ELSE bind(loop_body(st, Head(todo), existing_paths),
              LAMBDA next : loop(next, Tail(todo), existing_paths))

\* main_result starting from the records whose PDF is still there, dropping
\* the others: C4_UnmatchedUntouched tells it from main_result.
main_result_pruned(existing, pdfs) ==
    bind(<<sorted(pdfs), existing_paths_of(existing)>>, LAMBDA p :
        loop([publications |->
                  SelectSeq(existing,
                            LAMBDA pub : \E f \in pdfs : relative(f) = pub.github_pdf),
              new_count |-> 0, updated_count |-> 0], p[1], p[2]))

\* main() from load_existing_publications() to the end of its loop.
main_result(existing, pdfs) ==
    bind(<<sorted(pdfs), existing_paths_of(existing)>>, LAMBDA p :
        loop([publications |-> existing, new_count |-> 0, updated_count |-> 0], p[1], p[2]))

RanLast == last_op \in {"run", "rerun"}

\* A run of main().  Without papers/ it returns at once; otherwise it loads the
\* list, visits the PDFs in order, and saves the list when it added or changed
\* a record.
Main ==
    \E result \in {IF papers_dir
                   THEN main_result(publications, files)
                   ELSE [publications |-> publications, new_count |-> 0, updated_count |-> 0]} :
        LET save == result.new_count > 0 \/ result.updated_count > 0
        IN
        /\ pc = "idle"
        /\ loaded' = publications
        /\ scan' = IF papers_dir THEN sorted(files) ELSE <<>>
        /\ new_count' = result.new_count
        /\ updated_count' = result.updated_count
        /\ saved' = save
        /\ publications' = IF save THEN result.publications ELSE publications
        /\ created' = created \o
              [i \in 1..result.new_count |->
                  result.publications[Len(result.publications) - result.new_count + i].github_pdf]
        /\ last_op' = IF RanLast THEN "rerun" ELSE "run"
        /\ UNCHANGED <<papers_dir, files, renamed, env_steps, call_vars>>


-----------------------------------------------------------------------------
(* What happens outside main(): PDFs are added to papers/, removed, renamed, *)
(* and publications.yml is edited by hand.                                  *)

FOLDERS == { <<"p","e","e","r","-","r","e","v","i","e","w","e","d">>, <<"d","r","a","f","t","s">> }

NAMES ==
    { <<"1","_","_","a","_","_","U","R",".","p","d","f">>,
      <<"1","_","_","a","_","_","R","R","-","J","O","P",".","p","d","f">>,
      <<"b","-","2","-","c",".","p","d","f">> }

TITLE_WORDS ==
    << [text |-> <<"T","r","a","d","e">>, size |-> 20],
       [text |-> <<"W","a","r","s","*">>, size |-> 19],
       [text |-> <<"P","a","r","k">>, size |-> 12] >>

FOUND_ABSTRACT == <<"W","e"," ","s","t","u","d","y",".">>

PDFS ==
    { \* a title in the largest font and an abstract
      [readable |-> TRUE, pages |-> 2, words |-> TITLE_WORDS, abstract |-> FOUND_ABSTRACT],
      \* no abstract found
      [readable |-> TRUE, pages |-> 2, words |-> TITLE_WORDS, abstract |-> <<>>],
      \* the largest font holds five characters only
      [readable |-> TRUE, pages |-> 1,
       words |-> <<[text |-> <<"N","o","t","e","s">>, size |-> 12]>>, abstract |-> FOUND_ABSTRACT],
      \* pdfplumber.open raises
      [readable |-> FALSE, pages |-> 0, words |-> <<>>, abstract |-> <<>>] }

EDITED_TITLE == <<"B","y"," ","h","a","n","d">>
EDITED_ABSTRACT == <<"B","y"," ","h","a","n","d",".">>
EDITED_STATUS == <<"A","c","c","e","p","t","e","d">>

\* What every edit from outside does to the bookkeeping.
Edit(rename) ==
    /\ pc = "idle"
    /\ env_steps < MaxEnvSteps
    /\ env_steps' = env_steps + 1
    /\ last_op' = "edit"
    /\ renamed' = rename
    /\ UNCHANGED <<loaded, scan, new_count, updated_count, saved, created, call_vars>>

AddFile ==
    \E folder \in FOLDERS, name \in NAMES, pdf \in PDFS :
        /\ Cardinality(files) < MaxFiles
        /\ \A f \in files : ~(f.folder = folder /\ f.name = name)
        /\ files' = files \cup {[folder |-> folder, name |-> name, pdf |-> pdf]}
        /\ papers_dir' = TRUE
        /\ Edit(NoRename)
        /\ UNCHANGED publications

RemoveFile ==
    \E f \in files :
        /\ files' = files \ {f}
        /\ Edit(NoRename)
        /\ UNCHANGED <<papers_dir, publications>>

RenameFile ==
    \E f \in files, name \in NAMES :
        LET g == [f EXCEPT !.name = name]
        IN  /\ \A h \in files : ~(h.folder = f.folder /\ h.name = name)
            /\ files' = (files \ {f}) \cup {g}
            /\ Edit([from |-> relative(f), to |-> relative(g),
                     old_name |-> f.name, new_name |-> name])
            /\ UNCHANGED <<papers_dir, publications>>

RemovePapersDir ==
    /\ papers_dir
    /\ papers_dir' = FALSE
    /\ files' = {}
    /\ Edit(NoRename)
    /\ UNCHANGED publications

EditTitle ==
    \E i \in 1..Len(publications) :
        /\ publications[i].title # EDITED_TITLE
        /\ publications' = [publications EXCEPT ![i].title = EDITED_TITLE]
        /\ Edit(NoRename)
        /\ UNCHANGED <<papers_dir, files>>

EditAbstract ==
    \E i \in 1..Len(publications) :
        /\ publications' = [publications EXCEPT
                                ![i] = [k \in DOMAIN @ \cup {"abstract"} |->
                                           IF k = "abstract" THEN EDITED_ABSTRACT ELSE @[k]]]
        /\ publications' # publications
        /\ Edit(NoRename)
        /\ UNCHANGED <<papers_dir, files>>

EditStatus ==
    \E i \in 1..Len(publications) :
        /\ publications[i].status # EDITED_STATUS
        /\ publications' = [publications EXCEPT ![i].status = EDITED_STATUS]
        /\ Edit(NoRename)
        /\ UNCHANGED <<papers_dir, files>>

EditSortOrder ==
    \E i \in 1..Len(publications) :
        /\ publications[i].sort_order # 0
        /\ publications' = [publications EXCEPT ![i].sort_order = 0]
        /\ Edit(NoRename)
        /\ UNCHANGED <<papers_dir, files>>

Init ==
    /\ MergeInit
    /\ arg = <<>>
    /\ ret = <<>>
    /\ pc = "idle"

Next ==
    \/ Main
    \/ AddFile
    \/ RemoveFile
    \/ RenameFile
    \/ RemovePapersDir
    \/ EditTitle
    \/ EditAbstract
    \/ EditStatus
    \/ EditSortOrder

Spec == Init /\ [][Next]_vars

-----------------------------------------------------------------------------
(* Claims about main() (under Spec).  They compare what the last run loaded  *)
(* (loaded) with the list it left (publications).                           *)

ScannedPaths == {relative(scan[i]) : i \in 1..Len(scan)}

LoadedPaths == existing_paths_of(loaded)

\* The scanned PDFs that had no record when the last run started, in scan order.
NewFiles == SelectSeq(scan, LAMBDA f : relative(f) \notin LoadedPaths)

NoDuplicates(s) == \A i, j \in 1..Len(s) : i # j => s[i] # s[j]

\* C1: a run leaves every field but status and sort_order of a record whose
\* github_pdf is the path of a scanned PDF as it was.
C1_OnlyStatusAndSortOrder ==
    RanLast =>
        \A i \in 1..Len(loaded) :
            loaded[i].github_pdf \in ScannedPaths =>
                /\ i <= Len(publications)
                /\ [publications[i] EXCEPT !.status = loaded[i].status,
                                           !.sort_order = loaded[i].sort_order] = loaded[i]

\* A run refreshed the status or the sort order of a record that has a title
\* and an abstract.
C1_Witness ==
    /\ RanLast
    /\ \E i \in 1..Len(loaded) :
          /\ loaded[i].github_pdf \in ScannedPaths
          /\ loaded[i].title # <<>>
          /\ "abstract" \in DOMAIN loaded[i]
          /\ \/ publications[i].status # loaded[i].status
             \/ publications[i].sort_order # loaded[i].sort_order

\* The last edit renamed a PDF so that only the status segment of its name differs.
StatusSegmentRenamed ==
    /\ renamed # NoRename
    /\ parse_filename(renamed.old_name).clean_name = parse_filename(renamed.new_name).clean_name
    /\ parse_filename(renamed.old_name).status # parse_filename(renamed.new_name).status

\* C2: when a PDF with a stored record (with title and abstract) is renamed to
\* another status segment, the next run sets the status and sort_order of that
\* stored record to those of the new name, and changes nothing else.
C2_RenameRefreshesStoredRecord ==
    (last_op = "run" /\ StatusSegmentRenamed /\ renamed.to \in ScannedPaths) =>
        \A i \in 1..Len(loaded) :
            ( /\ loaded[i].github_pdf = renamed.from
              /\ loaded[i].title # <<>>
              /\ "abstract" \in DOMAIN loaded[i]
              /\ loaded[i].abstract # <<>> ) =>
                /\ Len(publications) = Len(loaded)
                /\ publications[i] =
                       [loaded[i] EXCEPT
                           !.status = parse_filename(renamed.new_name).status,
                           !.sort_order = parse_filename(renamed.new_name).sort_order]

\* C3: no two records share a github_pdf, and main() appends a record for a
\* path at most once.
C3_UniqueSourceRef ==
    /\ NoDuplicates([i \in 1..Len(publications) |-> publications[i].github_pdf])
    /\ NoDuplicates(created)

\* A run met a PDF that had a record and one that had none.
C3_Witness ==
    /\ RanLast
    /\ new_count >= 1
    /\ ScannedPaths \cap LoadedPaths # {}
    /\ Len(publications) >= 2

\* C4: a run leaves every record whose github_pdf is no scanned PDF in its
\* place and unchanged, and the list never gets shorter.
C4_UnmatchedUntouched ==
    RanLast =>
        /\ Len(publications) >= Len(loaded)
        /\ \A i \in 1..Len(loaded) :
              loaded[i].github_pdf \notin ScannedPaths => publications[i] = loaded[i]

\* A run that saved the list met a record whose PDF is gone.
C4_Witness ==
    /\ RanLast
    /\ saved
    /\ \E i \in 1..Len(loaded) : loaded[i].github_pdf \notin ScannedPaths

\* What C9 says of every scanned PDF that had no record, but for the title:
\* the run appends exactly one record for it, in scan order, with no abstract
\* field when the abstract extraction failed or found nothing.
NewRecordsAppended ==
    /\ new_count = Len(NewFiles)
    /\ Len(publications) = Len(loaded) + Len(NewFiles)
    /\ \A k \in 1..Len(NewFiles) :
          /\ publications[Len(loaded) + k].github_pdf = relative(NewFiles[k])
          /\ Cardinality({i \in 1..Len(publications) :
                 publications[i].github_pdf = relative(NewFiles[k])}) = 1
          /\ extract_abstract_from_pdf(NewFiles[k].pdf) = <<>>
                <=> "abstract" \notin DOMAIN publications[Len(loaded) + k]

\* The fallback title of a PDF named name.
FallbackTitleOf(name) == fallback_title(parse_filename(name).clean_name)

\* C9 as stated: ... and its title is the filename-derived title when the
\* title extraction failed.
C9_FallbackTitleAsStated ==
    RanLast =>
        /\ NewRecordsAppended
        /\ \A k \in 1..Len(NewFiles) :
              extract_title_from_pdf(NewFiles[k].pdf) = <<>> =>
                  publications[Len(loaded) + k].title = FallbackTitleOf(NewFiles[k].name)

\* C9 as amended: ... and its title is the filename-derived title passed
\* through clean_text and stripped of trailing ".,;: " when the title
\* extraction failed.
C9_ExtractionFailuresIsolated ==
    RanLast =>
        /\ NewRecordsAppended
        /\ \A k \in 1..Len(NewFiles) :
              extract_title_from_pdf(NewFiles[k].pdf) = <<>> =>
                  publications[Len(loaded) + k].title =
                      rstrip_chars(clean_text(FallbackTitleOf(NewFiles[k].name)),
                                   TRAILING_PUNCTUATION)

\* A run met an unreadable PDF without a record and, after it, another PDF
\* without a record.
C9_Witness ==
    /\ RanLast
    /\ Len(NewFiles) >= 2
    /\ ~NewFiles[1].pdf.readable
    /\ Len(publications) = Len(loaded) + 2

\* C10: a run right after a run, with nothing changed in between, adds and
\* updates nothing and does not save; a run saves exactly when it added or
\* updated a record.
C10_SecondRunIdle ==
    /\ last_op = "rerun" => new_count = 0 /\ updated_count = 0 /\ ~saved
    /\ RanLast => (saved <=> (new_count > 0 \/ updated_count > 0))
    /\ RanLast /\ ~saved => publications = loaded

\* A second run in a row met PDFs that all have records.
C10_Witness ==
    /\ last_op = "rerun"
    /\ Len(scan) >= 2
    /\ ScannedPaths \subseteq LoadedPaths

====
